---- MODULE Spec2Model ----
(***************************************************************************)
(* A model of simple-redis: the RESP bulk-string codec                     *)
(* (src/resp/bulk_string.rs), the concurrent Backend (src/backend/mod.rs)  *)
(* and the SADD / SISMEMBER commands (src/cmd/hset.rs).                    *)
(*                                                                         *)
(* Bytes are the integers 0..255, buffers and payloads are sequences of    *)
(* bytes.  A usize is kept at its real width of 64 bits, as four 16-bit    *)
(* limbs (least significant first), so that the additions of decode and    *)
(* expect_length overflow where the program's do.                          *)
(***************************************************************************)
EXTENDS Integers, Sequences, FiniteSets, TLC

VARIABLES
    buf,        \* codec: the input buffer (BytesMut)
    before,     \* codec: the buffer as it was when the last call started
    ret,        \* codec: the result of the last call
    call,       \* codec: the name of the last call
    checks,     \* codec: TRUE for a build with overflow checks (debug), FALSE for a wrapping build (release)
    feed,       \* codec: the bytes the transport has not delivered yet
    val,        \* codec: the payload whose encoding the transport delivers
    map,        \* BackendInner.map: key -> frame
    hmap,       \* BackendInner.hmap: key -> (field -> frame)
    hset,       \* BackendInner.hset: key -> set of members
    last,       \* the call in progress on the Backend and what it returned
    added,      \* history: the pairs <<key, member>> some completed sadd was called with
    req,        \* command layer: the array frame of the request being handled
    cmd,        \* command layer: what parsing the request gave
    pc,         \* workers: where each worker is in its Backend call
    arg,        \* workers: the arguments of each worker's call
    res,        \* workers: the value each worker's call is about to return
    wlock,      \* DashMap shards of BackendInner.hset: the worker holding the write lock
    rlock,      \* DashMap shards of BackendInner.hset: the workers holding a read lock
    shardOf,    \* the shard each key hashes to
    todo,       \* the calls no worker has started yet
    done,       \* history: the calls that have returned, with what they returned
    mrlock,     \* DashMap shards of BackendInner.map: the workers holding a read lock
    hwlock,     \* DashMap shards of BackendInner.hmap: the worker holding the write lock
    hrlock,     \* DashMap shards of BackendInner.hmap: the workers holding a read lock
    ilock,      \* inner maps of hmap: the <<worker, key, field>> read locks held on a field's shard
    view,       \* workers: the Option each worker's get, hget or hgetall is about to return
    run         \* the SAdd command in execution: its key and members, the response collected so far

codecVars == <<buf, before, ret, call, checks, feed, val>>
storeVars == <<map, hmap, hset>>
cmdVars == <<req, cmd>>
concVars == <<pc, arg, res, wlock, rlock, shardOf, todo, done>>
lockVars == <<mrlock, hwlock, hrlock, ilock, view>>

vars == <<buf, before, ret, call, checks, feed, val, map, hmap, hset, last, added, req, cmd,
          pc, arg, res, wlock, rlock, shardOf, todo, done, mrlock, hwlock, hrlock, ilock,
          view, run>>

----------------------------------------------------------------------------
(* Bounds of the model. *)

\* longest payload of an enumerated bulk string
MaxPayload == 2
\* longest run of bytes after a frame
MaxTrail == 2
\* longest unstructured input buffer
MaxRaw == 3
\* longest body after an enumerated header
MaxBody == 3
\* number of set keys
NKeys == 2
\* longest member list of an SAdd command
MaxList == 3
\* most arguments after the command name in an enumerated request
MaxArgs == 3
\* number of concurrent workers
NWorkers == 2
\* number of members added to each key by the concurrent workers
NIsoMembers == 2
NFields == 2
\* calls the workers of the concurrent Backend make in all
MaxCalls == 2

----------------------------------------------------------------------------
(* Bytes. *)

DOLLAR == 36
CR == 13
LF == 10
MINUS == 45
DIGIT0 == 48
\* the i-th lower-case letter
Letter(i) == 96 + i

CRLF == <<CR, LF>>
CRLF_LEN == Len(CRLF)

Digits == {DIGIT0 + d : d \in 0..9}

\* all byte strings over alphabet A of length at most n
RECURSIVE SeqsUpTo(_, _)
SeqsUpTo(A, n) ==
    IF n = 0 THEN {<<>>}
    ELSE LET shorter == SeqsUpTo(A, n - 1)
         IN shorter \cup {Append(s, a) : s \in {t \in shorter : Len(t) = n - 1}, a \in A}

StartsWith(s, p) == Len(s) >= Len(p) /\ SubSeq(s, 1, Len(p)) = p

\* s[from..] with a 0-based start, as a Rust slice
SliceFrom(s, from) == SubSeq(s, from + 1, Len(s))

\* s[..to] with a 0-based exclusive end
SliceTo(s, to) == SubSeq(s, 1, to)

----------------------------------------------------------------------------
(* usize: 64 bits as four 16-bit limbs, least significant first. *)

LimbBase == 2 ^ 16

UsizeOfNat(n) == <<n % LimbBase, n \div LimbBase, 0, 0>>

\* the sum modulo 2^64 and whether the true sum exceeds usize::MAX
UsizeAdd(a, b) ==
    LET s1 == a[1] + b[1]
        s2 == a[2] + b[2] + (s1 \div LimbBase)
        s3 == a[3] + b[3] + (s2 \div LimbBase)
        s4 == a[4] + b[4] + (s3 \div LimbBase)
    IN [val |-> <<s1 % LimbBase, s2 % LimbBase, s3 % LimbBase, s4 % LimbBase>>,
        overflow |-> s4 >= LimbBase]

\* a * 10 + d, with the same two fields
UsizeMul10Add(a, d) ==
    LET s1 == a[1] * 10 + d
        s2 == a[2] * 10 + (s1 \div LimbBase)
        s3 == a[3] * 10 + (s2 \div LimbBase)
        s4 == a[4] * 10 + (s3 \div LimbBase)
    IN [val |-> <<s1 % LimbBase, s2 % LimbBase, s3 % LimbBase, s4 % LimbBase>>,
        overflow |-> s4 >= LimbBase]

UsizeLess(a, b) ==
    \/ a[4] < b[4]
    \/ a[4] = b[4] /\ a[3] < b[3]
    \/ a[4] = b[4] /\ a[3] = b[3] /\ a[2] < b[2]
    \/ a[4] = b[4] /\ a[3] = b[3] /\ a[2] = b[2] /\ a[1] < b[1]

\* a usize known to be at most a buffer length, as a natural number
NatOfUsize(a) == a[1] + a[2] * LimbBase

----------------------------------------------------------------------------
(* Results of the codec's operations. *)

Result(kind, value, total) == [kind |-> kind, value |-> value, total |-> total]

NotComplete == Result("NotComplete", <<>>, UsizeOfNat(0))
Malformed == Result("Malformed", <<>>, UsizeOfNat(0))
Panic == Result("Panic", <<>>, UsizeOfNat(0))
NoResult == Result("None", <<>>, UsizeOfNat(0))
OkBulkString(v) == Result("BulkString", v, UsizeOfNat(0))
OkNullBulkString == Result("NullBulkString", <<>>, UsizeOfNat(0))
OkLength(n) == Result("Length", <<>>, n)

IsError(r) == r.kind \in {"NotComplete", "Malformed"}

----------------------------------------------------------------------------
(* Encoding. *)

\* the decimal text of n, as format!("{}", n) writes it
RECURSIVE DecimalBytes(_)
DecimalBytes(n) ==
    IF n < 10 THEN <<DIGIT0 + n>>
    ELSE Append(DecimalBytes(n \div 10), DIGIT0 + (n % 10))

PREFIX == <<DOLLAR>>

\* impl RespEncode for BulkString: "$" len CRLF payload CRLF
BulkString_encode(v) ==
    PREFIX \o DecimalBytes(Len(v)) \o CRLF \o v \o CRLF

\* impl RespEncode for NullBulkString: b"$-1\r\n"
NullBulkString_encode == <<DOLLAR, MINUS, DIGIT0 + 1>> \o CRLF

----------------------------------------------------------------------------
(* The helpers of the resp module that bulk_string.rs imports. *)

\* the 0-based index of the first CR LF at or after index start, or -1
find_crlf(b, start) ==
    LET hits == {i \in start..(Len(b) - 2) : b[i + 1] = CR /\ b[i + 2] = LF}
    IN IF hits = {} THEN -1 ELSE CHOOSE i \in hits : \A j \in hits : i <= j

RECURSIVE ParseDigits(_, _)
ParseDigits(s, acc) ==
    IF s = <<>> THEN [ok |-> TRUE, val |-> acc]
    ELSE IF Head(s) \notin Digits THEN [ok |-> FALSE, val |-> acc]
    ELSE LET m == UsizeMul10Add(acc, Head(s) - DIGIT0)
         IN IF m.overflow THEN [ok |-> FALSE, val |-> acc]
            ELSE ParseDigits(Tail(s), m.val)

\* a decimal length: one or more digits whose value fits a usize
parse_decimal(s) ==
    IF s = <<>> THEN [ok |-> FALSE, val |-> UsizeOfNat(0)]
    ELSE ParseDigits(s, UsizeOfNat(0))

\* parse_length(buf, prefix) -> (end, len): end is the 0-based index of the
\* header's CR, len the declared length.  Nothing is consumed.
parse_length(b, prefix) ==
    IF Len(b) < Len(prefix) THEN [kind |-> "NotComplete", end |-> 0, len |-> UsizeOfNat(0)]
    ELSE IF ~StartsWith(b, prefix) THEN [kind |-> "Malformed", end |-> 0, len |-> UsizeOfNat(0)]
    ELSE LET end == find_crlf(b, Len(prefix))
         IN IF end < 0 THEN [kind |-> "NotComplete", end |-> 0, len |-> UsizeOfNat(0)]
            ELSE LET n == parse_decimal(SubSeq(b, Len(prefix) + 1, end))
                 IN IF n.ok THEN [kind |-> "Ok", end |-> end, len |-> n.val]
                    ELSE [kind |-> "Malformed", end |-> 0, len |-> UsizeOfNat(0)]

\* extract_fixed_data(buf, expect, _): match the literal and consume it
extract_fixed_data(b, expect) ==
    IF StartsWith(b, expect) THEN [kind |-> "Ok", buf |-> SliceFrom(b, Len(expect))]
    ELSE IF Len(b) < Len(expect) /\ StartsWith(expect, b) THEN [kind |-> "NotComplete", buf |-> b]
    ELSE [kind |-> "Malformed", buf |-> b]

----------------------------------------------------------------------------
(* Decoding.  Each operator returns the result and the buffer it leaves. *)

Outcome(r, b) == [ret |-> r, buf |-> b]

\* decode that splits off only the payload and leaves its terminator behind
BulkString_decode_keeps_terminator(b, oc) ==
    LET pl == parse_length(b, PREFIX)
    IN IF pl.kind = "NotComplete" THEN Outcome(NotComplete, b)
       ELSE IF pl.kind = "Malformed" THEN Outcome(Malformed, b)
       ELSE
         LET remained == SliceFrom(b, pl.end + CRLF_LEN)
             need == UsizeAdd(pl.len, UsizeOfNat(CRLF_LEN))
         IN IF need.overflow /\ oc THEN Outcome(Panic, b)
            ELSE IF UsizeLess(UsizeOfNat(Len(remained)), need.val) THEN Outcome(NotComplete, b)
            ELSE LET at == NatOfUsize(pl.len)
                 IN Outcome(OkBulkString(SliceTo(remained, at)), SliceFrom(remained, at))

\* decode that waits for the payload only, not for the terminator after it
BulkString_decode_short_wait(b, oc) ==
    LET pl == parse_length(b, PREFIX)
    IN IF pl.kind = "NotComplete" THEN Outcome(NotComplete, b)
       ELSE IF pl.kind = "Malformed" THEN Outcome(Malformed, b)
       ELSE
         LET remained == SliceFrom(b, pl.end + CRLF_LEN)
         IN IF UsizeLess(UsizeOfNat(Len(remained)), pl.len) THEN Outcome(NotComplete, b)
            ELSE LET at == NatOfUsize(pl.len)
                 IN Outcome(OkBulkString(SliceTo(remained, at)),
                            SliceFrom(remained, at + CRLF_LEN))

\* decode that advances past the header before it knows the payload is there
BulkString_decode_advances_early(b, oc) ==
    LET pl == parse_length(b, PREFIX)
    IN IF pl.kind = "NotComplete" THEN Outcome(NotComplete, b)
       ELSE IF pl.kind = "Malformed" THEN Outcome(Malformed, b)
       ELSE
         LET remained == SliceFrom(b, pl.end + CRLF_LEN)
             need == UsizeAdd(pl.len, UsizeOfNat(CRLF_LEN))
         IN IF need.overflow /\ oc THEN Outcome(Panic, b)
            ELSE IF UsizeLess(UsizeOfNat(Len(remained)), need.val)
                 THEN Outcome(NotComplete, remained)
            ELSE
              LET at == NatOfUsize(need.val)
                  data == SliceTo(remained, at)
              IN IF UsizeLess(UsizeOfNat(Len(data)), pl.len)
                 THEN Outcome(Panic, SliceFrom(remained, at))
                 ELSE Outcome(OkBulkString(SliceTo(data, NatOfUsize(pl.len))),
                              SliceFrom(remained, at))

\* impl RespDecode for BulkString :: decode.  oc: the build checks overflow.
BulkString_decode(b, oc) ==
    LET pl == parse_length(b, PREFIX)
    IN IF pl.kind = "NotComplete" THEN Outcome(NotComplete, b)
       ELSE IF pl.kind = "Malformed" THEN Outcome(Malformed, b)
       ELSE
         LET end == pl.end
             len == pl.len
             remained == SliceFrom(b, end + CRLF_LEN)
             need == UsizeAdd(len, UsizeOfNat(CRLF_LEN))
         IN IF need.overflow /\ oc THEN Outcome(Panic, b)
            ELSE IF UsizeLess(UsizeOfNat(Len(remained)), need.val) THEN Outcome(NotComplete, b)
            ELSE
              LET at == NatOfUsize(need.val)
                  data == SliceTo(remained, at)
                  rest == SliceFrom(remained, at)
              IN IF UsizeLess(UsizeOfNat(Len(data)), len) THEN Outcome(Panic, rest)
                 ELSE Outcome(OkBulkString(SliceTo(data, NatOfUsize(len))), rest)

\* impl RespDecode for BulkString :: expect_length
BulkString_expect_length(b, oc) ==
    LET pl == parse_length(b, PREFIX)
    IN IF pl.kind = "NotComplete" THEN NotComplete
       ELSE IF pl.kind = "Malformed" THEN Malformed
       ELSE
         LET s1 == UsizeAdd(UsizeOfNat(pl.end), UsizeOfNat(CRLF_LEN))
             s2 == UsizeAdd(s1.val, pl.len)
             s3 == UsizeAdd(s2.val, UsizeOfNat(CRLF_LEN))
         IN IF (s1.overflow \/ s2.overflow \/ s3.overflow) /\ oc THEN Panic
            ELSE OkLength(s3.val)

\* impl RespDecode for NullBulkString :: decode
NullBulkString_decode(b) ==
    LET x == extract_fixed_data(b, NullBulkString_encode)
    IN IF x.kind = "Ok" THEN Outcome(OkNullBulkString, x.buf)
       ELSE IF x.kind = "NotComplete" THEN Outcome(NotComplete, x.buf)
       ELSE Outcome(Malformed, x.buf)

----------------------------------------------------------------------------
(* Frames. *)

BulkFrame(bytes) == [t |-> "BulkString", v |-> bytes]
IntegerFrame(n) == [t |-> "Integer", v |-> <<n>>]
ArrayFrame(elems) == [t |-> "Array", v |-> elems]

\* `b as i64`
BoolAsInt(b) == IF b THEN 1 ELSE 0

----------------------------------------------------------------------------
(* The Backend: three maps, each a function on the keys it holds. *)

EmptyMap == <<>>

NoCall == [name |-> "none"]
NoRequest == [as |-> "none", value |-> <<>>]
NoCommand == [kind |-> "none"]

\* the reply of a command that has not returned
NoReply == [t |-> "none", v |-> <<>>]

\* no SAdd command has been executed.  start and alone are history: the set
\* under the key when execute was entered, and whether no other handle has
\* called the Backend's set operations with that key during the execution
NoRun == [key |-> <<>>, members |-> <<>>, response |-> <<>>, reply |-> NoReply,
          start |-> {}, alone |-> TRUE]

\* what every specification without a Backend holds
NoBackend ==
    /\ map = EmptyMap
    /\ hmap = EmptyMap
    /\ hset = EmptyMap
    /\ last = NoCall
    /\ added = {}
    /\ req = NoRequest
    /\ cmd = NoCommand
    /\ pc = <<>>
    /\ arg = <<>>
    /\ res = <<>>
    /\ wlock = <<>>
    /\ rlock = <<>>
    /\ shardOf = <<>>
    /\ todo = {}
    /\ done = {}
    /\ mrlock = <<>>
    /\ hwlock = <<>>
    /\ hrlock = <<>>
    /\ ilock = {}
    /\ view = <<>>
    /\ run = NoRun

NoCodec ==
    /\ buf = <<>>
    /\ before = <<>>
    /\ ret = NoResult
    /\ call = "none"
    /\ checks = FALSE
    /\ feed = <<>>
    /\ val = <<>>

backendVars == <<map, hmap, hset, last, added, req, cmd, concVars, lockVars, run>>

Some(x) == [some |-> TRUE, value |-> x]
None == [some |-> FALSE]

\* DashMap::insert
Insert(m, k, x) == [j \in DOMAIN m \cup {k} |-> IF j = k THEN x ELSE m[j]]

\* DashMap::entry(k).or_default()
OrDefault(m, k, default) == IF k \in DOMAIN m THEN m ELSE Insert(m, k, default)

\* Backend::get
Backend_get(m, key) == IF key \in DOMAIN m THEN Some(m[key]) ELSE None

\* Backend::set
Backend_set(m, key, value) == Insert(m, key, value)

\* Backend::hget
Backend_hget(h, key, field) ==
    IF key \in DOMAIN h /\ field \in DOMAIN h[key] THEN Some(h[key][field]) ELSE None

\* hset that stores a fresh hash holding only the new field
Backend_hset_replaces_hash(h, key, field, value) ==
    Insert(h, key, Insert(EmptyMap, field, value))

\* Backend::hset
Backend_hset(h, key, field, value) ==
    LET h1 == OrDefault(h, key, EmptyMap)
    IN [h1 EXCEPT ![key] = Insert(@, field, value)]

\* Backend::hgetall
Backend_hgetall(h, key) == IF key \in DOMAIN h THEN Some(h[key]) ELSE None

\* sadd that reports whether the member was there, not whether it is new
Backend_sadd_reports_present(s, key, member) ==
    LET s1 == OrDefault(s, key, {})
    IN [hset |-> [s1 EXCEPT ![key] = @ \cup {member}], ret |-> member \in s1[key]]

\* Backend::sadd: the map it leaves and the bool it returns
Backend_sadd(s, key, member) ==
    LET s1 == OrDefault(s, key, {})
    IN [hset |-> [s1 EXCEPT ![key] = @ \cup {member}], ret |-> member \notin s1[key]]

\* sismember that looks for the member in every key's set
Backend_sismember_any_key(s, key, member) ==
    \E k \in DOMAIN s : member \in s[k]

\* Backend::sismember
Backend_sismember(s, key, member) ==
    IF key \in DOMAIN s THEN member \in s[key] ELSE FALSE

----------------------------------------------------------------------------
(* Commands (cmd/hset.rs): execution. *)

SAdd(key, members) == [kind |-> "SAdd", key |-> key, members |-> members]
SIsMember(key, member) == [kind |-> "SIsMember", key |-> key, member |-> member]

\* the set under key, empty when the key is vacant
SetAt(s, key) == IF key \in DOMAIN s THEN s[key] ELSE {}

\* SAdd::execute entered with command c: the iterator over c.members has
\* yielded nothing yet and the response vector is empty
SAdd_execute(c, s) ==
    [key |-> c.key, members |-> c.members, response |-> <<>>, reply |-> NoReply,
     start |-> SetAt(s, c.key), alone |-> TRUE]

SAdd_execute_more(r) == Len(r.response) < Len(r.members)

\* a turn of the iterator that takes the members from the back
SAdd_execute_next_from_back(r, s) ==
    LET member == r.members[Len(r.members) - Len(r.response)]
        b == Backend_sadd(s, r.key, member)
    IN [hset |-> b.hset, member |-> member,
        response |-> Append(r.response, IntegerFrame(BoolAsInt(b.ret)))]

\* one turn of the iterator that collect() drives in SAdd::execute: the next
\* member goes to backend.sadd, which locks and unlocks the key's shard, and
\* the bool it returns is pushed as an Integer frame
SAdd_execute_next(r, s) ==
    LET member == r.members[Len(r.response) + 1]
        b == Backend_sadd(s, r.key, member)
    IN [hset |-> b.hset, member |-> member,
        response |-> Append(r.response, IntegerFrame(BoolAsInt(b.ret)))]

\* the iterator is exhausted: RespFrame::Array(RespArray(response))
SAdd_execute_reply(r) == ArrayFrame(r.response)

\* impl CommandExecutor for SIsMember
SIsMember_execute(c, s) == IntegerFrame(BoolAsInt(Backend_sismember(s, c.key, c.member)))

----------------------------------------------------------------------------
(* The Backend as a state machine.  Each call of a handle on the Backend is one
   step, taken under the lock of its key's shard.  The SAdd command is a
   sequence of such steps: the other handles' calls run between them. *)

KeyName(i) == <<107, DIGIT0 + i>>
MemberName(i) == <<109, DIGIT0 + i>>
Keys == {KeyName(i) : i \in 1..NKeys}
Members == {MemberName(1), MemberName(2)}
\* the scalar and hash maps are exercised on one key that is also a set key
OtherKeys == {KeyName(1)}
Fields == {<<102>>}
Values == {BulkFrame(<<Letter(1)>>), IntegerFrame(1)}
MemberLists == SeqsUpTo(Members, MaxList) \ {<<>>}

InitBackend ==
    /\ NoCodec
    /\ NoBackend

Idle == last = NoCall

Get ==
    \E k \in OtherKeys :
        /\ Idle
        /\ last' = [name |-> "get", key |-> k, ret |-> Backend_get(map, k)]
        /\ UNCHANGED <<codecVars, run, lockVars, concVars, storeVars, added, cmdVars>>

Set ==
    \E k \in OtherKeys, v \in Values :
        /\ Idle
        /\ map' = Backend_set(map, k, v)
        /\ last' = [name |-> "set", key |-> k, value |-> v]
        /\ UNCHANGED <<codecVars, run, lockVars, concVars, hmap, hset, added, cmdVars>>

HGet ==
    \E k \in OtherKeys, f \in Fields :
        /\ Idle
        /\ last' = [name |-> "hget", key |-> k, field |-> f, ret |-> Backend_hget(hmap, k, f)]
        /\ UNCHANGED <<codecVars, run, lockVars, concVars, storeVars, added, cmdVars>>

HSet ==
    \E k \in OtherKeys, f \in Fields, v \in Values :
        /\ Idle
        /\ hmap' = Backend_hset(hmap, k, f, v)
        /\ last' = [name |-> "hset", key |-> k, field |-> f, value |-> v]
        /\ UNCHANGED <<codecVars, run, lockVars, concVars, map, hset, added, cmdVars>>

\* hgetall that looks the key up with entry(key).or_default()
HGetAll_creates_entry ==
    \E k \in OtherKeys :
        /\ Idle
        /\ hmap' = OrDefault(hmap, k, EmptyMap)
        /\ last' = [name |-> "hgetall", key |-> k, ret |-> Backend_hgetall(hmap', k)]
        /\ UNCHANGED <<codecVars, run, lockVars, concVars, map, hset, added, cmdVars>>

HGetAll ==
    \E k \in OtherKeys :
        /\ Idle
        /\ last' = [name |-> "hgetall", key |-> k, ret |-> Backend_hgetall(hmap, k)]
        /\ UNCHANGED <<codecVars, run, lockVars, concVars, storeVars, added, cmdVars>>

\* an SAdd command has entered execute and not returned
Running == run # NoRun /\ run.reply = NoReply

\* run after another handle has called a set operation with key k
Beside(k) == IF Running /\ run.key = k THEN [run EXCEPT !.alone = FALSE] ELSE run

SAddCall ==
    \E k \in Keys, m \in Members :
        LET r == Backend_sadd(hset, k, m)
        IN /\ Idle
           /\ hset' = r.hset
           /\ last' = [name |-> "sadd", key |-> k, member |-> m, ret |-> r.ret]
           /\ added' = added \cup {<<k, m>>}
           /\ run' = Beside(k)
           /\ UNCHANGED <<codecVars, lockVars, concVars, map, hmap, cmdVars>>

SIsMemberCall ==
    \E k \in Keys, m \in Members :
        /\ Idle
        /\ last' = [name |-> "sismember", key |-> k, member |-> m,
                    ret |-> Backend_sismember(hset, k, m)]
        /\ run' = Beside(k)
        /\ UNCHANGED <<codecVars, lockVars, concVars, storeVars, added, cmdVars>>

\* a handle enters SAdd::execute; no lock is taken yet
ExecuteSAdd ==
    \E k \in Keys, ms \in MemberLists :
        /\ run = NoRun
        /\ run' = SAdd_execute(SAdd(k, ms), hset)
        /\ UNCHANGED <<codecVars, lockVars, concVars, storeVars, last, added, cmdVars>>

\* the command's next sadd.  Between two of them no lock is held, so the
\* calls of the other handles of the Backend run in between.
ExecuteSAddNext ==
    /\ Running
    /\ SAdd_execute_more(run)
    /\ LET n == SAdd_execute_next(run, hset)
       IN /\ hset' = n.hset
          /\ added' = added \cup {<<run.key, n.member>>}
          /\ run' = [run EXCEPT !.response = n.response]
    /\ UNCHANGED <<codecVars, lockVars, concVars, map, hmap, last, cmdVars>>

\* every member has had its sadd: the command returns the array
ExecuteSAddReply ==
    /\ Running
    /\ ~SAdd_execute_more(run)
    /\ run' = [run EXCEPT !.reply = SAdd_execute_reply(run)]
    /\ UNCHANGED <<codecVars, lockVars, concVars, storeVars, last, added, cmdVars>>

\* the caller takes the array
ExecuteSAddReturn ==
    /\ run.reply # NoReply
    /\ run' = NoRun
    /\ UNCHANGED <<codecVars, lockVars, concVars, storeVars, last, added, cmdVars>>

ExecuteSIsMember ==
    \E k \in Keys, m \in Members :
        /\ Idle
        /\ last' = [name |-> "SIsMember", key |-> k, member |-> m,
                    ret |-> SIsMember_execute(SIsMember(k, m), hset)]
        /\ run' = Beside(k)
        /\ UNCHANGED <<codecVars, lockVars, concVars, storeVars, added, cmdVars>>

\* the caller takes the result
Return ==
    /\ ~Idle
    /\ last' = NoCall
    /\ UNCHANGED <<codecVars, run, lockVars, concVars, storeVars, added, cmdVars>>

\* the direct calls on the three maps
NextBackend ==
    \/ Get \/ Set \/ HGet \/ HSet \/ HGetAll
    \/ SAddCall \/ SIsMemberCall
    \/ Return

SpecBackend == InitBackend /\ [][NextBackend]_vars

\* the set map alone: an SAdd command in execution, and the direct calls and
\* SIsMember commands of the other handles
NextSets ==
    \/ SAddCall \/ SIsMemberCall
    \/ ExecuteSAdd \/ ExecuteSAddNext \/ ExecuteSAddReply \/ ExecuteSAddReturn
    \/ ExecuteSIsMember
    \/ Return

SpecSets == InitBackend /\ [][NextSets]_vars

----------------------------------------------------------------------------
(* The hash map on several keys and fields, next to a scalar map and a set map
   that use the same key names. *)

HashKeys == {KeyName(1), KeyName(2)}
HashFields == {<<102, DIGIT0 + i>> : i \in 1..NFields}
HSetRecord(k, f) == [key |-> k, field |-> f]

InitHash ==
    /\ NoCodec
    /\ NoBackend

HashSet ==
    \E k \in HashKeys, f \in HashFields, v \in Values :
        /\ Idle
        /\ hmap' = Backend_hset(hmap, k, f, v)
        /\ last' = [name |-> "hset", key |-> k, field |-> f, value |-> v]
        /\ done' = done \cup {HSetRecord(k, f)}
        /\ UNCHANGED <<codecVars, run, lockVars, pc, arg, res, wlock, rlock, shardOf, todo, map, hset, added, cmdVars>>

HashGet ==
    \E k \in HashKeys, f \in HashFields :
        /\ Idle
        /\ last' = [name |-> "hget", key |-> k, field |-> f, ret |-> Backend_hget(hmap, k, f)]
        /\ UNCHANGED <<codecVars, run, lockVars, concVars, storeVars, added, cmdVars>>

\* one member goes into the set stored under the first hash key's name
HashSAdd ==
    LET r == Backend_sadd(hset, KeyName(1), MemberName(1))
    IN /\ Idle
       /\ hset' = r.hset
       /\ last' = [name |-> "sadd", key |-> KeyName(1), member |-> MemberName(1), ret |-> r.ret]
       /\ added' = added \cup {<<KeyName(1), MemberName(1)>>}
       /\ UNCHANGED <<codecVars, run, lockVars, concVars, map, hmap, cmdVars>>

NextHash == HashSet \/ HashGet \/ HashSAdd \/ Set \/ Return

SpecHash == InitHash /\ [][NextHash]_vars

----------------------------------------------------------------------------
(* Commands (cmd/hset.rs): parsing an array frame. *)

IsCont(b) == b >= 128 /\ b <= 191

\* String::from_utf8 succeeds: the bytes are well-formed UTF-8
RECURSIVE IsUtf8(_)
IsUtf8(b) ==
    IF b = <<>> THEN TRUE
    ELSE LET c == b[1]
             n == Len(b)
         IN IF c < 128 THEN IsUtf8(SliceFrom(b, 1))
            ELSE IF c >= 194 /\ c <= 223
                 THEN n >= 2 /\ IsCont(b[2]) /\ IsUtf8(SliceFrom(b, 2))
            ELSE IF c >= 224 /\ c <= 239
                 THEN /\ n >= 3
                      /\ IsCont(b[2])
                      /\ IsCont(b[3])
                      /\ (c = 224 => b[2] >= 160)
                      /\ (c = 237 => b[2] <= 159)
                      /\ IsUtf8(SliceFrom(b, 3))
            ELSE IF c >= 240 /\ c <= 244
                 THEN /\ n >= 4
                      /\ IsCont(b[2])
                      /\ IsCont(b[3])
                      /\ IsCont(b[4])
                      /\ (c = 240 => b[2] >= 144)
                      /\ (c = 244 => b[2] <= 143)
                      /\ IsUtf8(SliceFrom(b, 4))
            ELSE FALSE

to_ascii_lowercase(b) ==
    [i \in 1..Len(b) |-> IF b[i] >= 65 /\ b[i] <= 90 THEN b[i] + 32 ELSE b[i]]

NAME_SADD == <<115, 97, 100, 100>>
NAME_SISMEMBER == <<115, 105, 115, 109, 101, 109, 98, 101, 114>>

InvalidCommand == [kind |-> "InvalidCommand"]
InvalidArgument == [kind |-> "InvalidArgument"]
IsRejected(c) == c.kind \in {"InvalidCommand", "InvalidArgument"}

\* validate_command(value, [name], n_args): the element count, then the name
validate_command(value, name, n_args) ==
    /\ Len(value) = n_args + 1
    /\ value[1].t = "BulkString"
    /\ to_ascii_lowercase(value[1].v) = name

\* extract_args(value, start): the elements after the first `start`
extract_args(value, start) == SliceFrom(value, start)

\* the member loop of SAdd::try_from: the members read so far, or the error
RECURSIVE ReadMembers(_, _)
ReadMembers(args, members) ==
    IF args = <<>> THEN SAdd(<<>>, members)
    ELSE IF Head(args).t # "BulkString" THEN InvalidArgument
    ELSE IF ~IsUtf8(Head(args).v) THEN InvalidArgument
    ELSE ReadMembers(Tail(args), Append(members, Head(args).v))

\* try_from that takes the command name and a key without members
SAdd_try_from_without_members(value) ==
    LET len == Len(value)
    IN IF len <= 1 THEN InvalidCommand
       ELSE IF ~validate_command(value, NAME_SADD, len - 1) THEN InvalidCommand
       ELSE LET args == extract_args(value, 1)
            IN IF Head(args).t # "BulkString" \/ ~IsUtf8(Head(args).v) THEN InvalidArgument
               ELSE LET ms == ReadMembers(Tail(args), <<>>)
                    IN IF IsRejected(ms) THEN ms ELSE SAdd(Head(args).v, ms.members)

\* impl TryFrom<RespArray> for SAdd
SAdd_try_from(value) ==
    LET len == Len(value)
    IN IF len = 0 THEN InvalidCommand
       ELSE IF len >= 1 /\ len <= 2 THEN InvalidCommand
       ELSE IF ~validate_command(value, NAME_SADD, len - 1) THEN InvalidCommand
       ELSE LET args == extract_args(value, 1)
            IN IF args = <<>> \/ Head(args).t # "BulkString" THEN InvalidArgument
               ELSE IF ~IsUtf8(Head(args).v) THEN InvalidArgument
               ELSE LET ms == ReadMembers(Tail(args), <<>>)
                    IN IF IsRejected(ms) THEN ms ELSE SAdd(Head(args).v, ms.members)

\* impl TryFrom<RespArray> for SIsMember
SIsMember_try_from(value) ==
    IF ~validate_command(value, NAME_SISMEMBER, 2) THEN InvalidCommand
    ELSE LET args == extract_args(value, 1)
         IN IF Len(args) < 2 \/ args[1].t # "BulkString" \/ args[2].t # "BulkString"
            THEN InvalidArgument
            ELSE IF ~IsUtf8(args[1].v) THEN InvalidArgument
            ELSE IF ~IsUtf8(args[2].v) THEN InvalidArgument
            ELSE SIsMember(args[1].v, args[2].v)

----------------------------------------------------------------------------
(* The command layer as a state machine: a connection's request is parsed,
   then executed or rejected, then answered.  An SAdd command is executed one
   sadd at a time, and another handle of the Backend may call sadd meanwhile. *)

\* names used as keys and members: one ASCII, one of two UTF-8 bytes
CmdNames == {<<Letter(1)>>, <<195, 169>>}
NotUtf8 == <<Letter(1), 255>>
Heads == {BulkFrame(NAME_SADD), BulkFrame(NAME_SISMEMBER), BulkFrame(<<Letter(1)>>), IntegerFrame(1)}
ArgElems == {BulkFrame(n) : n \in CmdNames} \cup {BulkFrame(NotUtf8), IntegerFrame(1)}
Requests == {<<>>} \cup {<<h>> \o a : h \in Heads, a \in SeqsUpTo(ArgElems, MaxArgs)}

InitCmd ==
    /\ NoCodec
    /\ NoBackend

\* the connection reads its next request when the last one is answered
Ready == cmd = NoCommand /\ last = NoCall /\ run = NoRun

\* try_from that adds the members it has read before it meets a bad one
TrySAdd_applies_while_parsing ==
    \E value \in Requests :
        LET c == SAdd_try_from(value)
            good == IF Len(value) >= 3 /\ value[2].t = "BulkString" /\ value[3].t = "BulkString"
                       /\ IsUtf8(value[2].v) /\ IsUtf8(value[3].v)
                    THEN Backend_sadd(hset, value[2].v, value[3].v).hset
                    ELSE hset
        IN /\ Ready
           /\ req' = [as |-> "SAdd", value |-> value]
           /\ cmd' = c
           /\ hset' = good
           /\ UNCHANGED <<codecVars, run, lockVars, concVars, map, hmap, last, added>>

TrySAdd ==
    \E value \in Requests :
        /\ Ready
        /\ req' = [as |-> "SAdd", value |-> value]
        /\ cmd' = SAdd_try_from(value)
        /\ UNCHANGED <<codecVars, run, lockVars, concVars, storeVars, last, added>>

TrySIsMember ==
    \E value \in Requests :
        /\ Ready
        /\ req' = [as |-> "SIsMember", value |-> value]
        /\ cmd' = SIsMember_try_from(value)
        /\ UNCHANGED <<codecVars, run, lockVars, concVars, storeVars, last, added>>

\* the parsed SAdd command is handed to execute
RunSAdd ==
    /\ cmd.kind = "SAdd"
    /\ run = NoRun
    /\ run' = SAdd_execute(cmd, hset)
    /\ cmd' = NoCommand
    /\ req' = NoRequest
    /\ UNCHANGED <<codecVars, lockVars, concVars, storeVars, last, added>>

RunSIsMember ==
    /\ cmd.kind = "SIsMember"
    /\ Idle
    /\ last' = [name |-> "SIsMember", key |-> cmd.key, member |-> cmd.member,
                ret |-> SIsMember_execute(cmd, hset)]
    /\ run' = Beside(cmd.key)
    /\ cmd' = NoCommand
    /\ req' = NoRequest
    /\ UNCHANGED <<codecVars, lockVars, concVars, storeVars, added>>

\* a rejected request is answered with its error and nothing is executed
Reject ==
    /\ IsRejected(cmd)
    /\ cmd' = NoCommand
    /\ req' = NoRequest
    /\ UNCHANGED <<codecVars, run, lockVars, concVars, storeVars, last, added>>

\* another handle of the Backend calls sadd
OtherSAdd ==
    \E k \in CmdNames, m \in CmdNames :
        LET r == Backend_sadd(hset, k, m)
        IN /\ hset' = r.hset
           /\ added' = added \cup {<<k, m>>}
           /\ run' = Beside(k)
           /\ UNCHANGED <<codecVars, lockVars, concVars, map, hmap, last, cmdVars>>

NextCmd ==
    \/ TrySAdd \/ TrySIsMember
    \/ RunSAdd \/ ExecuteSAddNext \/ ExecuteSAddReply \/ ExecuteSAddReturn
    \/ RunSIsMember \/ Reject \/ Return
    \/ OtherSAdd

SpecCmd == InitCmd /\ [][NextCmd]_vars

----------------------------------------------------------------------------
(* Concurrent workers on the set map.  BackendInner.hset is a DashMap: its
   keys are spread over shards, each shard behind a reader-writer lock.
   entry(key) takes the write lock of the key's shard and the guard it
   returns (a RefMut) is dropped at the end of sadd's expression. *)

Workers == 1..NWorkers
Shards == {1, 2}
NoWorker == 0

IsoKeys == {KeyName(1), KeyName(2)}
IsoMember(k, j) == <<109, k[2], DIGIT0 + j>>
IsoMembersOf(k) == {IsoMember(k, j) : j \in 1..NIsoMembers}
IsoCalls == UNION {{<<k, m>> : m \in IsoMembersOf(k)} : k \in IsoKeys}

InitWorkers ==
    /\ pc = [w \in Workers |-> "idle"]
    /\ arg = [w \in Workers |-> <<>>]
    /\ res = [w \in Workers |-> FALSE]
    /\ wlock = [s \in Shards |-> NoWorker]
    /\ rlock = [s \in Shards |-> {}]
    /\ shardOf \in [IsoKeys -> Shards]
    /\ done = {}
    /\ mrlock = [s \in Shards |-> {}]
    /\ hwlock = [s \in Shards |-> NoWorker]
    /\ hrlock = [s \in Shards |-> {}]
    /\ ilock = {}
    /\ view = [w \in Workers |-> None]
    /\ run = NoRun

InitIso ==
    /\ NoCodec
    /\ map = EmptyMap
    /\ hmap = EmptyMap
    /\ hset = EmptyMap
    /\ last = NoCall
    /\ added = {}
    /\ req = NoRequest
    /\ cmd = NoCommand
    /\ InitWorkers
    /\ todo = IsoCalls

\* a worker takes a call nobody has started: sadd(key, member)
SAddBegin(w) ==
    \E p \in todo :
        /\ pc[w] = "idle"
        /\ todo' = todo \ {p}
        /\ arg' = [arg EXCEPT ![w] = p]
        /\ pc' = [pc EXCEPT ![w] = "entry"]
        /\ UNCHANGED <<codecVars, run, lockVars, storeVars, last, added, cmdVars, res, wlock, rlock, shardOf, done>>

\* self.hset.entry(key): wait for the shard's write lock and take it
SAddEntry(w) ==
    LET s == shardOf[arg[w][1]]
    IN /\ pc[w] = "entry"
       /\ wlock[s] = NoWorker
       /\ rlock[s] = {}
       /\ wlock' = [wlock EXCEPT ![s] = w]
       /\ pc' = [pc EXCEPT ![w] = "or_default"]
       /\ UNCHANGED <<codecVars, run, lockVars, storeVars, last, added, cmdVars, arg, res, rlock, shardOf, todo, done>>

\* or_default that puts a new empty set under the key whether it is there or not
SAddOrDefault_replaces(w) ==
    /\ pc[w] = "or_default"
    /\ hset' = Insert(hset, arg[w][1], {})
    /\ pc' = [pc EXCEPT ![w] = "insert"]
    /\ UNCHANGED <<codecVars, run, lockVars, map, hmap, last, added, cmdVars, arg, res, wlock, rlock, shardOf, todo, done>>

\* .or_default(): the key's set, created empty if the key is vacant
SAddOrDefault(w) ==
    /\ pc[w] = "or_default"
    /\ hset' = OrDefault(hset, arg[w][1], {})
    /\ pc' = [pc EXCEPT ![w] = "insert"]
    /\ UNCHANGED <<codecVars, run, lockVars, map, hmap, last, added, cmdVars, arg, res, wlock, rlock, shardOf, todo, done>>

\* insert whose result is dropped: sadd answers true whatever the set held
SAddInsert_always_true(w) ==
    LET r == Backend_sadd(hset, arg[w][1], arg[w][2])
    IN /\ pc[w] = "insert"
       /\ hset' = r.hset
       /\ res' = [res EXCEPT ![w] = TRUE]
       /\ pc' = [pc EXCEPT ![w] = "drop"]
       /\ UNCHANGED <<codecVars, run, lockVars, map, hmap, last, added, cmdVars, arg, wlock, rlock, shardOf, todo, done>>

\* .insert(field): DashSet::insert on the key's set, under the shard's lock
SAddInsert(w) ==
    LET r == Backend_sadd(hset, arg[w][1], arg[w][2])
    IN /\ pc[w] = "insert"
       /\ hset' = r.hset
       /\ res' = [res EXCEPT ![w] = r.ret]
       /\ pc' = [pc EXCEPT ![w] = "drop"]
       /\ UNCHANGED <<codecVars, run, lockVars, map, hmap, last, added, cmdVars, arg, wlock, rlock, shardOf, todo, done>>

\* the guard is dropped, the lock released, and sadd returns
SAddReturn(w) ==
    LET s == shardOf[arg[w][1]]
    IN /\ pc[w] = "drop"
       /\ wlock' = [wlock EXCEPT ![s] = NoWorker]
       /\ done' = done \cup {[key |-> arg[w][1], member |-> arg[w][2], ret |-> res[w]]}
       /\ added' = added \cup {arg[w]}
       /\ pc' = [pc EXCEPT ![w] = "idle"]
       /\ UNCHANGED <<codecVars, run, lockVars, storeVars, last, cmdVars, arg, res, rlock, shardOf, todo>>

NextIso ==
    \E w \in Workers :
        \/ SAddBegin(w)
        \/ SAddEntry(w)
        \/ SAddOrDefault(w)
        \/ SAddInsert(w)
        \/ SAddReturn(w)

SpecIso == InitIso /\ [][NextIso]_vars

AllReturned == todo = {} /\ \A w \in Workers : pc[w] = "idle"

----------------------------------------------------------------------------
(* Every worker calls sadd once, all with the same key and the same member. *)

RacePair == <<KeyName(1), MemberName(1)>>

\* the key is vacant, or holds a set without the member
InitRace ==
    /\ NoCodec
    /\ map = EmptyMap
    /\ hmap = EmptyMap
    /\ hset \in {EmptyMap, Backend_sadd(EmptyMap, RacePair[1], MemberName(2)).hset}
    /\ last = NoCall
    /\ added = {}
    /\ req = NoRequest
    /\ cmd = NoCommand
    /\ InitWorkers
    /\ todo = Workers

\* a worker that has not called yet calls sadd(key, member)
RaceBegin(w) ==
    /\ pc[w] = "idle"
    /\ w \in todo
    /\ todo' = todo \ {w}
    /\ arg' = [arg EXCEPT ![w] = RacePair]
    /\ pc' = [pc EXCEPT ![w] = "entry"]
    /\ UNCHANGED <<codecVars, run, lockVars, storeVars, last, added, cmdVars, res, wlock, rlock, shardOf, done>>

NextRace ==
    \E w \in Workers :
        \/ RaceBegin(w)
        \/ SAddEntry(w)
        \/ SAddOrDefault(w)
        \/ SAddInsert(w)
        \/ SAddReturn(w)

SpecRace == InitRace /\ [][NextRace]_vars

----------------------------------------------------------------------------
(* The seven Backend operations called concurrently.  Each operation is cut
   where it takes or releases a DashMap lock: get() takes the read lock of the
   key's shard and the Ref it returns holds it; entry() takes the write lock
   and the RefMut holds it; insert() takes and releases the write lock inside
   the call.  The three maps hash a key the same way here; no operation
   touches two of them. *)

\* DashMap::clone of an inner map copies its shards in this order, one field a shard
CopyOrder == <<<<102, DIGIT0 + 1>>, <<102, DIGIT0 + 2>>>>
\* where hgetall is while it copies shard i
CloneLabel == <<"hgetall:clone:1", "hgetall:clone:2">>
CloneLabels == {CloneLabel[i] : i \in 1..Len(CloneLabel)}
ConcFields == {CopyOrder[i] : i \in 1..Len(CopyOrder)}
ConcValue == BulkFrame(<<Letter(1)>>)
ConcMember == MemberName(1)

\* the first key is filled in all three maps, the second is vacant in all three
ConcCalls ==
    {[pc |-> "get", arg |-> <<k>>] : k \in IsoKeys}
    \cup {[pc |-> "set", arg |-> <<KeyName(1), <<>>, ConcValue>>]}
    \cup {[pc |-> "hget", arg |-> <<KeyName(1), f>>] : f \in ConcFields}
    \cup {[pc |-> "hset", arg |-> <<KeyName(1), f, ConcValue>>] : f \in ConcFields}
    \cup {[pc |-> "hset", arg |-> <<KeyName(2), CopyOrder[1], ConcValue>>]}
    \cup {[pc |-> "hgetall", arg |-> <<k>>] : k \in IsoKeys}
    \cup {[pc |-> "entry", arg |-> <<k, ConcMember>>] : k \in IsoKeys}
    \cup {[pc |-> "sismember", arg |-> <<k, ConcMember>>] : k \in IsoKeys}

\* the maps after set, hset and sadd on the first key
FilledStore ==
    [map |-> Backend_set(EmptyMap, KeyName(1), IntegerFrame(1)),
     hmap |-> Backend_hset(EmptyMap, KeyName(1), CopyOrder[1], IntegerFrame(1)),
     hset |-> Backend_sadd(EmptyMap, KeyName(1), ConcMember).hset]

InitConc ==
    /\ NoCodec
    /\ map = FilledStore.map
    /\ hmap = FilledStore.hmap
    /\ hset = FilledStore.hset
    /\ last = NoCall
    /\ added = {}
    /\ req = NoRequest
    /\ cmd = NoCommand
    /\ InitWorkers
    /\ shardOf[KeyName(1)] = 1
    /\ todo = MaxCalls

restVars == <<codecVars, last, added, cmdVars, shardOf, done, run>>

\* a worker calls one of the seven operations
ConcBegin(w) ==
    \E c \in ConcCalls :
        /\ pc[w] = "idle"
        /\ todo > 0
        /\ todo' = todo - 1
        /\ arg' = [arg EXCEPT ![w] = c.arg]
        /\ pc' = [pc EXCEPT ![w] = c.pc]
        /\ res' = [res EXCEPT ![w] = FALSE]
        /\ view' = [view EXCEPT ![w] = None]
        /\ UNCHANGED <<restVars, storeVars, wlock, rlock, mrlock, hwlock, hrlock, ilock>>

\* self.map.get(key): the Ref holds the shard's read lock; None holds nothing
GetRef(w) ==
    LET k == arg[w][1]
        s == shardOf[k]
    IN /\ pc[w] = "get"
       /\ IF k \in DOMAIN map
          THEN /\ mrlock' = [mrlock EXCEPT ![s] = @ \cup {w}]
               /\ pc' = [pc EXCEPT ![w] = "get:clone"]
               /\ arg' = arg
               /\ view' = view
          ELSE /\ view' = [view EXCEPT ![w] = None]
               /\ pc' = [pc EXCEPT ![w] = "idle"]
               /\ arg' = [arg EXCEPT ![w] = <<>>]
               /\ mrlock' = mrlock
       /\ UNCHANGED <<restVars, storeVars, res, wlock, rlock, todo, hwlock, hrlock, ilock>>

\* .map(|v| v.value().clone()): the value is copied and the Ref dropped
GetClone(w) ==
    LET k == arg[w][1]
        s == shardOf[k]
    IN /\ pc[w] = "get:clone"
       /\ view' = [view EXCEPT ![w] = Backend_get(map, k)]
       /\ mrlock' = [mrlock EXCEPT ![s] = @ \ {w}]
       /\ pc' = [pc EXCEPT ![w] = "idle"]
       /\ arg' = [arg EXCEPT ![w] = <<>>]
       /\ UNCHANGED <<restVars, storeVars, res, wlock, rlock, todo, hwlock, hrlock, ilock>>

\* self.map.insert(key, value): waits for the shard's write lock, inserts, releases
SetInsert(w) ==
    LET k == arg[w][1]
        s == shardOf[k]
    IN /\ pc[w] = "set"
       /\ mrlock[s] = {}
       /\ map' = Backend_set(map, k, arg[w][3])
       /\ pc' = [pc EXCEPT ![w] = "idle"]
       /\ arg' = [arg EXCEPT ![w] = <<>>]
       /\ UNCHANGED <<restVars, hmap, hset, res, wlock, rlock, todo, lockVars>>

\* self.hmap.get(key) of hget
HGetRef(w) ==
    LET k == arg[w][1]
        s == shardOf[k]
    IN /\ pc[w] = "hget"
       /\ hwlock[s] = NoWorker
       /\ IF k \in DOMAIN hmap
          THEN /\ hrlock' = [hrlock EXCEPT ![s] = @ \cup {w}]
               /\ pc' = [pc EXCEPT ![w] = "hget:get"]
               /\ arg' = arg
               /\ view' = view
          ELSE /\ view' = [view EXCEPT ![w] = None]
               /\ pc' = [pc EXCEPT ![w] = "idle"]
               /\ arg' = [arg EXCEPT ![w] = <<>>]
               /\ hrlock' = hrlock
       /\ UNCHANGED <<restVars, storeVars, res, wlock, rlock, todo, mrlock, hwlock, ilock>>

\* v.get(field) on the inner map, under the outer Ref
HGetInner(w) ==
    LET k == arg[w][1]
        f == arg[w][2]
        s == shardOf[k]
    IN /\ pc[w] = "hget:get"
       /\ IF f \in DOMAIN hmap[k]
          THEN /\ ilock' = ilock \cup {<<w, k, f>>}
               /\ pc' = [pc EXCEPT ![w] = "hget:clone"]
               /\ arg' = arg
               /\ view' = view
               /\ hrlock' = hrlock
          ELSE /\ view' = [view EXCEPT ![w] = None]
               /\ hrlock' = [hrlock EXCEPT ![s] = @ \ {w}]
               /\ pc' = [pc EXCEPT ![w] = "idle"]
               /\ arg' = [arg EXCEPT ![w] = <<>>]
               /\ ilock' = ilock
       /\ UNCHANGED <<restVars, storeVars, res, wlock, rlock, todo, mrlock, hwlock>>

\* .map(|v| v.value().clone()) of hget: both Refs are dropped
HGetClone(w) ==
    LET k == arg[w][1]
        f == arg[w][2]
        s == shardOf[k]
    IN /\ pc[w] = "hget:clone"
       /\ view' = [view EXCEPT ![w] = Backend_hget(hmap, k, f)]
       /\ ilock' = ilock \ {<<w, k, f>>}
       /\ hrlock' = [hrlock EXCEPT ![s] = @ \ {w}]
       /\ pc' = [pc EXCEPT ![w] = "idle"]
       /\ arg' = [arg EXCEPT ![w] = <<>>]
       /\ UNCHANGED <<restVars, storeVars, res, wlock, rlock, todo, mrlock, hwlock>>

\* self.hmap.entry(key): wait for the shard's write lock and take it
HSetEntry(w) ==
    LET s == shardOf[arg[w][1]]
    IN /\ pc[w] = "hset"
       /\ hwlock[s] = NoWorker
       /\ hrlock[s] = {}
       /\ hwlock' = [hwlock EXCEPT ![s] = w]
       /\ pc' = [pc EXCEPT ![w] = "hset:or_default"]
       /\ UNCHANGED <<restVars, storeVars, arg, res, wlock, rlock, todo, mrlock, hrlock, ilock, view>>

\* or_default whose guard is dropped at once: the insert runs without the lock
HSetOrDefault_unlocks(w) ==
    /\ pc[w] = "hset:or_default"
    /\ hmap' = OrDefault(hmap, arg[w][1], EmptyMap)
    /\ hwlock' = [hwlock EXCEPT ![shardOf[arg[w][1]]] = NoWorker]
    /\ pc' = [pc EXCEPT ![w] = "hset:insert"]
    /\ UNCHANGED <<restVars, map, hset, arg, res, wlock, rlock, todo, mrlock, hrlock, ilock, view>>

\* .or_default(): the key's hash, created empty if the key is vacant
HSetOrDefault(w) ==
    /\ pc[w] = "hset:or_default"
    /\ hmap' = OrDefault(hmap, arg[w][1], EmptyMap)
    /\ pc' = [pc EXCEPT ![w] = "hset:insert"]
    /\ UNCHANGED <<restVars, map, hset, arg, res, wlock, rlock, todo, lockVars>>

\* insert that goes through self.hmap again while the entry is still held
HSetInsert_reenters(w) ==
    LET k == arg[w][1]
        f == arg[w][2]
        s == shardOf[k]
    IN /\ pc[w] = "hset:insert"
       /\ hwlock[s] = NoWorker
       /\ hrlock[s] = {}
       /\ hmap' = Backend_hset(hmap, k, f, arg[w][3])
       /\ pc' = [pc EXCEPT ![w] = "hset:drop"]
       /\ UNCHANGED <<restVars, map, hset, arg, res, wlock, rlock, todo, lockVars>>

\* hmap.insert(field, value): the inner map's insert, under the outer RefMut
HSetInsert(w) ==
    LET k == arg[w][1]
        f == arg[w][2]
    IN /\ pc[w] = "hset:insert"
       /\ ~\E v \in Workers : <<v, k, f>> \in ilock
       /\ hmap' = Backend_hset(hmap, k, f, arg[w][3])
       /\ pc' = [pc EXCEPT ![w] = "hset:drop"]
       /\ UNCHANGED <<restVars, map, hset, arg, res, wlock, rlock, todo, lockVars>>

\* the RefMut goes out of scope when hset ends
HSetDrop(w) ==
    LET s == shardOf[arg[w][1]]
    IN /\ pc[w] = "hset:drop"
       /\ hwlock' = [hwlock EXCEPT ![s] = NoWorker]
       /\ pc' = [pc EXCEPT ![w] = "idle"]
       /\ arg' = [arg EXCEPT ![w] = <<>>]
       /\ UNCHANGED <<restVars, storeVars, res, wlock, rlock, todo, mrlock, hrlock, ilock, view>>

\* hgetall that looks the key up and lets go of the shard before it copies
HGetAllRef_unlocked(w) ==
    LET k == arg[w][1]
        s == shardOf[k]
    IN /\ pc[w] = "hgetall"
       /\ hwlock[s] = NoWorker
       /\ IF k \in DOMAIN hmap
          THEN /\ view' = [view EXCEPT ![w] = Some(EmptyMap)]
               /\ pc' = [pc EXCEPT ![w] = CloneLabel[1]]
               /\ arg' = arg
          ELSE /\ view' = [view EXCEPT ![w] = None]
               /\ pc' = [pc EXCEPT ![w] = "idle"]
               /\ arg' = [arg EXCEPT ![w] = <<>>]
       /\ UNCHANGED <<restVars, storeVars, res, wlock, rlock, todo, mrlock, hwlock, hrlock, ilock>>

\* self.hmap.get(key) of hgetall; the clone starts out empty
HGetAllRef(w) ==
    LET k == arg[w][1]
        s == shardOf[k]
    IN /\ pc[w] = "hgetall"
       /\ hwlock[s] = NoWorker
       /\ IF k \in DOMAIN hmap
          THEN /\ hrlock' = [hrlock EXCEPT ![s] = @ \cup {w}]
               /\ view' = [view EXCEPT ![w] = Some(EmptyMap)]
               /\ pc' = [pc EXCEPT ![w] = CloneLabel[1]]
               /\ arg' = arg
          ELSE /\ view' = [view EXCEPT ![w] = None]
               /\ pc' = [pc EXCEPT ![w] = "idle"]
               /\ arg' = [arg EXCEPT ![w] = <<>>]
               /\ hrlock' = hrlock
       /\ UNCHANGED <<restVars, storeVars, res, wlock, rlock, todo, mrlock, hwlock, ilock>>

\* .map(|v| v.clone()): DashMap::clone copies the next shard of the inner map
HGetAllCopy(w) ==
    \E i \in 1..Len(CopyOrder) :
        LET k == arg[w][1]
            f == CopyOrder[i]
        IN /\ pc[w] = CloneLabel[i]
           /\ view' = [view EXCEPT ![w] =
                          IF k \in DOMAIN hmap /\ f \in DOMAIN hmap[k]
                          THEN Some(Insert(@.value, f, hmap[k][f]))
                          ELSE @]
           /\ pc' = [pc EXCEPT ![w] = IF i = Len(CopyOrder) THEN "hgetall:drop" ELSE CloneLabel[i + 1]]
           /\ UNCHANGED <<restVars, storeVars, arg, res, wlock, rlock, todo, mrlock, hwlock, hrlock, ilock>>

\* the Ref of hgetall is dropped, the copy is what hgetall returns
HGetAllDrop(w) ==
    LET s == shardOf[arg[w][1]]
    IN /\ pc[w] = "hgetall:drop"
       /\ hrlock' = [hrlock EXCEPT ![s] = @ \ {w}]
       /\ pc' = [pc EXCEPT ![w] = "idle"]
       /\ arg' = [arg EXCEPT ![w] = <<>>]
       /\ UNCHANGED <<restVars, storeVars, res, wlock, rlock, todo, mrlock, hwlock, ilock, view>>

\* self.hset.get(key) of sismember; map_or(false, ..) answers false for a vacant key
SIsMemberRef(w) ==
    LET k == arg[w][1]
        s == shardOf[k]
    IN /\ pc[w] = "sismember"
       /\ wlock[s] = NoWorker
       /\ IF k \in DOMAIN hset
          THEN /\ rlock' = [rlock EXCEPT ![s] = @ \cup {w}]
               /\ pc' = [pc EXCEPT ![w] = "sismember:contains"]
               /\ arg' = arg
               /\ res' = res
          ELSE /\ res' = [res EXCEPT ![w] = FALSE]
               /\ pc' = [pc EXCEPT ![w] = "idle"]
               /\ arg' = [arg EXCEPT ![w] = <<>>]
               /\ rlock' = rlock
       /\ UNCHANGED <<restVars, storeVars, wlock, todo, lockVars>>

\* v.contains(member), then the Ref is dropped
SIsMemberContains(w) ==
    LET k == arg[w][1]
        s == shardOf[k]
    IN /\ pc[w] = "sismember:contains"
       /\ res' = [res EXCEPT ![w] = Backend_sismember(hset, k, arg[w][2])]
       /\ rlock' = [rlock EXCEPT ![s] = @ \ {w}]
       /\ pc' = [pc EXCEPT ![w] = "idle"]
       /\ arg' = [arg EXCEPT ![w] = <<>>]
       /\ UNCHANGED <<restVars, storeVars, wlock, todo, lockVars>>

\* the steps of a call in progress
ConcStep(w) ==
    \/ GetRef(w) \/ GetClone(w)
    \/ SetInsert(w)
    \/ HGetRef(w) \/ HGetInner(w) \/ HGetClone(w)
    \/ HSetEntry(w) \/ HSetOrDefault(w) \/ HSetInsert(w) \/ HSetDrop(w)
    \/ HGetAllRef(w) \/ HGetAllCopy(w) \/ HGetAllDrop(w)
    \/ SAddEntry(w) \/ SAddOrDefault(w) \/ SAddInsert(w) \/ SAddReturn(w)
    \/ SIsMemberRef(w) \/ SIsMemberContains(w)

NextConc == \E w \in Workers : ConcBegin(w) \/ ConcStep(w)

SpecConc == InitConc /\ [][NextConc]_vars

\* every worker that can take a step of its call eventually takes one
SpecConcFair == SpecConc /\ \A w \in Workers : WF_vars(ConcStep(w))

----------------------------------------------------------------------------
(* The inputs of the codec. *)

PayloadBytes == {CR, LF, Letter(1), DOLLAR}
RawBytes == {DOLLAR, CR, LF, MINUS, DIGIT0, DIGIT0 + 1, Letter(1)}
BodyBytes == {CR, LF, Letter(1)}

\* payloads long enough for a length of two decimal digits
LongPayloads == {[i \in 1..n |-> Letter(1)] : n \in {10, 11}}
Payloads == SeqsUpTo(PayloadBytes, MaxPayload) \cup LongPayloads
Trails == SeqsUpTo(PayloadBytes, MaxTrail)

\* the decimal digits of usize::MAX = 2^64 - 1 but for the last one
MaxLeading == <<1, 8, 4, 4, 6, 7, 4, 4, 0, 7, 3, 7, 0, 9, 5, 5, 1, 6, 1>>
DigitText(ds) == [i \in 1..Len(ds) |-> DIGIT0 + ds[i]]
\* usize::MAX - 3 .. usize::MAX, and usize::MAX + 1
NearMaxFields == {DigitText(Append(MaxLeading, d)) : d \in 2..6}

LenFields ==
    {DecimalBytes(n) : n \in 0..(MaxPayload + 1)}
        \cup {<<>>, <<MINUS, DIGIT0 + 1>>, <<DIGIT0, DIGIT0 + 1>>, <<Letter(1)>>}
        \cup NearMaxFields

RoundTripInputs ==
    {BulkString_encode(v) \o t : v \in Payloads, t \in Trails}
        \cup {NullBulkString_encode \o t : t \in Trails}
HeaderInputs ==
    {PREFIX \o f \o CRLF \o body : f \in LenFields, body \in SeqsUpTo(BodyBytes, MaxBody)}
RawInputs == SeqsUpTo(RawBytes, MaxRaw)

Inputs == RoundTripInputs \cup HeaderInputs \cup RawInputs

----------------------------------------------------------------------------
(* The codec as a state machine: a buffer and the calls made on it. *)

InitCodec ==
    /\ buf \in Inputs
    /\ before = <<>>
    /\ ret = NoResult
    /\ call = "none"
    /\ checks \in BOOLEAN
    /\ feed = <<>>
    /\ val = <<>>
    /\ NoBackend

DecodeBulk ==
    LET o == BulkString_decode(buf, checks)
    IN /\ call' = "BulkString::decode"
       /\ before' = buf
       /\ ret' = o.ret
       /\ buf' = o.buf
       /\ UNCHANGED <<checks, feed, val, backendVars>>

DecodeNull ==
    LET o == NullBulkString_decode(buf)
    IN /\ call' = "NullBulkString::decode"
       /\ before' = buf
       /\ ret' = o.ret
       /\ buf' = o.buf
       /\ UNCHANGED <<checks, feed, val, backendVars>>

ExpectLength ==
    /\ call' = "BulkString::expect_length"
    /\ before' = buf
    /\ ret' = BulkString_expect_length(buf, checks)
    /\ UNCHANGED <<buf, checks, feed, val, backendVars>>

NextCodec == DecodeBulk \/ DecodeNull \/ ExpectLength

SpecCodec == InitCodec /\ [][NextCodec]_vars

(* Incremental delivery: the transport appends the next byte of encode(val)
   and the connection loop attempts a decode. *)

InitFeed ==
    /\ val \in Payloads
    /\ feed = BulkString_encode(val)
    /\ buf = <<>>
    /\ before = <<>>
    /\ ret = NoResult
    /\ call = "none"
    /\ checks \in BOOLEAN
    /\ NoBackend

Feed ==
    /\ feed # <<>>
    /\ LET arrived == Append(buf, Head(feed))
           o == BulkString_decode(arrived, checks)
       IN /\ call' = "BulkString::decode"
          /\ before' = arrived
          /\ ret' = o.ret
          /\ buf' = o.buf
          /\ feed' = Tail(feed)
          /\ UNCHANGED <<checks, val, backendVars>>

NextFeed == Feed

SpecFeed == InitFeed /\ [][NextFeed]_vars

----------------------------------------------------------------------------
(* Building bulk-string frames and encoding them. *)

\* BulkString::new
BulkString_new(s) == OkBulkString(s)

\* RespBulkString::new that keeps an empty input as an empty bulk string
RespBulkString_new_keeps_empty(s) == OkBulkString(s)

\* RespBulkString::new: an empty input gives the null variant
RespBulkString_new(s) ==
    IF s = <<>> THEN OkNullBulkString ELSE OkBulkString(BulkString_new(s).value)

\* impl From<&str>, From<&[u8]>, From<String>, From<&[u8; N]> for RespBulkString
RespBulkString_from(s) ==
    IF s = <<>> THEN OkNullBulkString ELSE OkBulkString(BulkString_new(s).value)

IsFrame(r) == r.kind \in {"BulkString", "NullBulkString"}

\* encode that writes the length of the whole frame body, terminator included
RespBulkString_encode_counts_terminator(f) ==
    IF f.kind = "BulkString"
    THEN PREFIX \o DecimalBytes(Len(f.value) + CRLF_LEN) \o CRLF \o f.value \o CRLF
    ELSE NullBulkString_encode

\* enum RespBulkString, #[enum_dispatch(RespEncode)]: encode of the variant
RespBulkString_encode(f) ==
    IF f.kind = "BulkString" THEN BulkString_encode(f.value) ELSE NullBulkString_encode

HELLO == <<104, 101, 108, 108, 111>>
FrameInputs == Payloads \cup {HELLO}

InitEncode ==
    /\ val \in FrameInputs
    /\ buf = <<>>
    /\ before = <<>>
    /\ ret = NoResult
    /\ call = "none"
    /\ checks \in BOOLEAN
    /\ feed = <<>>
    /\ NoBackend

NewBulkString ==
    /\ call = "none"
    /\ call' = "BulkString::new"
    /\ ret' = BulkString_new(val)
    /\ UNCHANGED <<buf, before, checks, feed, val, backendVars>>

NewRespBulkString ==
    /\ call = "none"
    /\ call' = "RespBulkString::new"
    /\ ret' = RespBulkString_new(val)
    /\ UNCHANGED <<buf, before, checks, feed, val, backendVars>>

FromBytes ==
    /\ call = "none"
    /\ call' = "RespBulkString::from"
    /\ ret' = RespBulkString_from(val)
    /\ UNCHANGED <<buf, before, checks, feed, val, backendVars>>

NewNull ==
    /\ call = "none"
    /\ call' = "NullBulkString"
    /\ ret' = OkNullBulkString
    /\ UNCHANGED <<buf, before, checks, feed, val, backendVars>>

\* the frame just built is encoded into the buffer
EncodeFrame ==
    /\ call \in {"BulkString::new", "RespBulkString::new", "RespBulkString::from", "NullBulkString"}
    /\ IsFrame(ret)
    /\ call' = "encode"
    /\ buf' = RespBulkString_encode(ret)
    /\ UNCHANGED <<before, ret, checks, feed, val, backendVars>>

\* the encoded frame is decoded again, as either variant
DecodeEncoded ==
    /\ call = "encode"
    /\ (DecodeBulk \/ DecodeNull)

NextEncode ==
    \/ NewBulkString \/ NewRespBulkString \/ FromBytes \/ NewNull
    \/ EncodeFrame
    \/ DecodeEncoded

SpecEncode == InitEncode /\ [][NextEncode]_vars

----------------------------------------------------------------------------
(* Claims about the codec. *)

\* C1: round trip.  BulkString::decode on encode(v) followed by any trailing
\* bytes returns v, consumes exactly len(encode(v)) bytes and leaves the
\* trailing bytes; NullBulkString::decode on "$-1\r\n" returns the null bulk
\* string and consumes exactly its 5 bytes.
C1_RoundTrip ==
    /\ call = "BulkString::decode" =>
          \A v \in Payloads :
              LET e == BulkString_encode(v)
              IN StartsWith(before, e) =>
                    /\ ret = OkBulkString(v)
                    /\ buf = SliceFrom(before, Len(e))
                    /\ Len(before) - Len(buf) = Len(e)
    /\ (call = "NullBulkString::decode" /\ before = NullBulkString_encode) =>
          /\ ret = OkNullBulkString
          /\ buf = <<>>
          /\ Len(before) - Len(buf) = 5

\* a payload holding CR LF, decoded out of a buffer with bytes after the frame
C1_Witness ==
    /\ call = "BulkString::decode"
    /\ \E t \in Trails :
          /\ t # <<>>
          /\ before = BulkString_encode(CRLF) \o t
          /\ ret = OkBulkString(CRLF)
          /\ buf = t

\* C2: incremental delivery.  With encode(val) arriving one byte at a time and
\* a decode attempted after every byte, every attempt on a strictly shorter
\* prefix returns NotComplete and the attempt on the whole encoding returns val.
C2_Incremental ==
    call = "BulkString::decode" =>
        /\ before \o feed = BulkString_encode(val)
        /\ feed # <<>> => ret = NotComplete
        /\ feed = <<>> => ret = OkBulkString(val)

\* the last byte of a non-empty payload's encoding has arrived
C2_Witness ==
    /\ call = "BulkString::decode"
    /\ feed = <<>>
    /\ val # <<>>
    /\ before = BulkString_encode(val)
    /\ ret = OkBulkString(val)

\* C3: BulkString::decode and NullBulkString::decode consume nothing when they
\* return NotComplete or a format error: the buffer is what it was before.
C3_ErrorConsumesNothing ==
    (call \in {"BulkString::decode", "NullBulkString::decode"} /\ IsError(ret)) =>
        buf = before

\* a whole header with a part of its payload: NotComplete, buffer untouched
C3_Witness ==
    /\ call = "BulkString::decode"
    /\ ret = NotComplete
    /\ parse_length(before, PREFIX).kind = "Ok"
    /\ Len(before) > parse_length(before, PREFIX).end + CRLF_LEN
    /\ buf = before

\* C4: the codec never panics on client input: decode and expect_length
\* always return a value, NotComplete or a format error.
C4_NeverPanics == ret.kind # "Panic"

----------------------------------------------------------------------------
(* Claims about the Backend's sets and the commands on them. *)

\* C5: sadd(k, m) returns true iff m was not a member of set k immediately
\* before the call (the set is created if k was absent): it returns true iff
\* no earlier sadd had this key and member, and m is a member afterwards.
C5_SaddReturnsNew ==
    [][(Idle /\ last'.name = "sadd") =>
          /\ last'.ret = ~Backend_sismember(hset, last'.key, last'.member)
          /\ last'.ret = (<<last'.key, last'.member>> \notin added)
          /\ last'.key \in DOMAIN hset'
          /\ last'.member \in hset'[last'.key]]_vars

\* a second sadd of the same key and member has returned false
C5_Witness ==
    /\ last.name = "sadd"
    /\ last.ret = FALSE
    /\ last.member \in hset[last.key]

\* the integers the SAdd command must return for the first n of its members:
\* 1 for a member that was neither in the set before the command nor earlier
\* in the list, 0 otherwise
ExpectedSAddReply(start, members, n) ==
    [i \in 1..n |->
        IntegerFrame(IF /\ members[i] \notin start
                        /\ \A j \in 1..(i - 1) : members[j] # members[i]
                     THEN 1 ELSE 0)]

\* C7: executing SAdd{key, members} while no other command names that key
\* calls sadd once per member in the given order (every sadd handles the
\* member after the ones answered, and after it the answered members are in
\* the set), and returns an array of |members| integers in input order, the
\* i-th being 1 iff members[i] was neither in the set before the command nor
\* appears earlier in members.
C7_SAddReply ==
    /\ [](run.alone =>
            /\ Len(run.response) <= Len(run.members)
            /\ run.response = ExpectedSAddReply(run.start, run.members, Len(run.response))
            /\ \A i \in 1..Len(run.response) :
                  Backend_sismember(hset, run.key, run.members[i])
            /\ run.reply # NoReply =>
                  /\ Len(run.reply.v) = Len(run.members)
                  /\ run.reply = ArrayFrame(ExpectedSAddReply(run.start, run.members,
                                                              Len(run.members))))
    /\ [][(Running /\ run' # run /\ run'.alone = run.alone) =>
            IF SAdd_execute_more(run)
            THEN /\ Len(run'.response) = Len(run.response) + 1
                 /\ hset' = Backend_sadd(hset, run.key, run.members[Len(run'.response)]).hset
            ELSE hset' = hset /\ run'.reply = ArrayFrame(run.response)]_vars

\* SADD key m1 m2 m1 on a fresh key, no other command naming the key
\* meanwhile, has returned [1, 1, 0]
C7_Witness ==
    /\ run.alone
    /\ run.start = {}
    /\ run.members = <<MemberName(1), MemberName(2), MemberName(1)>>
    /\ run.reply = ArrayFrame(<<IntegerFrame(1), IntegerFrame(1), IntegerFrame(0)>>)

\* C10: sismember(k, m), and the SIsMember command as 1/0, is true iff some
\* sadd(k, m) with exactly that key and member has completed before the
\* lookup, whether called directly or by an SAdd command still in execution;
\* once true it stays true.
C10_MemberIffAdded ==
    /\ [](\A k \in Keys : \A m \in Members :
             Backend_sismember(hset, k, m) <=> <<k, m>> \in added)
    /\ [][(Idle /\ last'.name = "sismember") =>
             last'.ret = (<<last'.key, last'.member>> \in added)]_vars
    /\ [][(Idle /\ last'.name = "SIsMember") =>
             last'.ret = IntegerFrame(BoolAsInt(<<last'.key, last'.member>> \in added))]_vars
    /\ [][\A k \in Keys : \A m \in Members :
            Backend_sismember(hset, k, m) => Backend_sismember(hset', k, m)]_vars

\* the member was added to another key only: sismember has returned false
C10_Witness ==
    /\ last.name = "sismember"
    /\ last.ret = FALSE
    /\ last.key \in DOMAIN hset
    /\ \E k \in Keys : k # last.key /\ <<k, last.member>> \in added

----------------------------------------------------------------------------
(* Claims about parsing commands. *)

\* C8: parsing an array into SAdd fails with an invalid-command error when
\* the array has 0, 1 or 2 elements, and can succeed only with 3 or more.
C8_SAddArity ==
    req.as = "SAdd" =>
        /\ Len(req.value) <= 2 => cmd = InvalidCommand
        /\ cmd.kind = "SAdd" => Len(req.value) >= 3

\* "sadd" and a key, no member: rejected as an invalid command
C8_Witness ==
    /\ req.as = "SAdd"
    /\ req.value = <<BulkFrame(NAME_SADD), BulkFrame(<<Letter(1)>>)>>
    /\ cmd = InvalidCommand

\* C9: a request that SAdd::try_from or SIsMember::try_from rejects leaves
\* the Backend as it was: no step of a rejected request, into it by parsing
\* or out of it by the error reply, changes any of the three maps or starts
\* an execution.
C9_RejectedLeavesBackend ==
    [][(cmd' # cmd /\ (IsRejected(cmd') \/ IsRejected(cmd))) =>
          (map' = map /\ hmap' = hmap /\ hset' = hset /\ run' = run)]_vars

\* SADD key member <not a bulk string of text>: rejected, the valid member
\* before the bad one is not in the set
C9_Witness ==
    /\ req.as = "SAdd"
    /\ Len(req.value) = 4
    /\ req.value[1] = BulkFrame(NAME_SADD)
    /\ req.value[2] = BulkFrame(<<Letter(1)>>)
    /\ req.value[3] = BulkFrame(<<Letter(1)>>)
    /\ req.value[4] = BulkFrame(NotUtf8)
    /\ cmd = InvalidArgument
    /\ ~Backend_sismember(hset, <<Letter(1)>>, <<Letter(1)>>)

----------------------------------------------------------------------------
(* Claims about concurrent workers. *)

\* C6: workers concurrently calling sadd for distinct keys with distinct
\* members each, every pair once: every call returns true, and when all
\* calls have returned each key's set holds exactly its own members.
C6_NoLostUpdate ==
    /\ \A r \in done : r.ret = TRUE
    /\ AllReturned =>
          /\ DOMAIN hset = IsoKeys
          /\ \A k \in IsoKeys : hset[k] = IsoMembersOf(k)
          /\ {<<r.key, r.member>> : r \in done} = IsoCalls

\* all calls have returned, with both keys in one shard
C6_Witness ==
    /\ AllReturned
    /\ Cardinality(done) = Cardinality(IsoCalls)
    /\ \A k \in IsoKeys : shardOf[k] = 1
    /\ \A k \in IsoKeys : hset[k] = IsoMembersOf(k)

----------------------------------------------------------------------------
(* Claims about building and encoding bulk strings. *)

NULL_WIRE == <<36, 45, 49, 13, 10>>
EMPTY_WIRE == <<36, 48, 13, 10, 13, 10>>
HELLO_WIRE == <<36, 53, 13, 10, 104, 101, 108, 108, 111, 13, 10>>

\* b is "$", the canonical decimal text of Len(v), CR LF, the bytes of v, CR LF
ByteExact(b, v) ==
    \E nd \in 1..3 :
        /\ Len(b) = 1 + nd + 2 + Len(v) + 2
        /\ b[1] = 36
        /\ \A i \in 2..(nd + 1) : b[i] \in 48..57
        /\ (nd > 1 => b[2] # 48)
        /\ parse_decimal(SubSeq(b, 2, nd + 1)) = [ok |-> TRUE, val |-> UsizeOfNat(Len(v))]
        /\ b[nd + 2] = 13 /\ b[nd + 3] = 10
        /\ SubSeq(b, nd + 4, nd + 3 + Len(v)) = v
        /\ b[Len(b) - 1] = 13 /\ b[Len(b)] = 10

\* C12: byte-exact encoding.  A bulk string of L payload bytes encodes as "$",
\* decimal L, CR LF, the payload unchanged, CR LF (hello gives $5\r\nhello\r\n);
\* the null bulk string, and a frame built by RespBulkString::new from an
\* empty input, encode as exactly $-1\r\n.
C12_ByteExactEncoding ==
    /\ (call = "encode" /\ ret.kind = "BulkString") =>
          /\ ByteExact(buf, ret.value)
          /\ ret.value = HELLO => buf = HELLO_WIRE
    /\ (call = "encode" /\ ret.kind = "NullBulkString") => buf = NULL_WIRE
    /\ (call = "RespBulkString::new" /\ val = <<>>) => ret = OkNullBulkString

\* hello has been encoded
C12_Witness ==
    /\ call = "encode"
    /\ ret = OkBulkString(HELLO)
    /\ buf = HELLO_WIRE

\* C13 as stated: every way of building a bulk-string frame turns an empty
\* byte sequence into the empty bulk string ($0\r\n\r\n), never into the null
\* one, and encode and decode keep the two apart.
C13_EmptyNeverNull ==
    /\ (call \in {"BulkString::new", "RespBulkString::new", "RespBulkString::from"} /\ val = <<>>) =>
          ret = OkBulkString(<<>>)
    /\ (call = "encode" /\ val = <<>> /\ ret.kind = "BulkString") => buf = EMPTY_WIRE
    /\ (call = "BulkString::decode" /\ before = EMPTY_WIRE) => ret = OkBulkString(<<>>)
    /\ (call = "NullBulkString::decode" /\ before = EMPTY_WIRE) => ret.kind # "NullBulkString"
    /\ (call = "BulkString::decode" /\ before = NULL_WIRE) => ret.kind # "BulkString"

\* C13 as amended: BulkString::new, encode and decode keep empty and null
\* apart (empty is $0\r\n\r\n and decodes to the empty bulk string, null is
\* $-1\r\n and decodes only as the null one), while RespBulkString::new and the
\* From conversions of RespBulkString turn an empty input into the null bulk
\* string and any other input into a bulk string holding it.
C13_EmptyNullExceptConstructors ==
    /\ call = "BulkString::new" => ret = OkBulkString(val)
    /\ call \in {"RespBulkString::new", "RespBulkString::from"} =>
          ret = IF val = <<>> THEN OkNullBulkString ELSE OkBulkString(val)
    /\ (call = "encode" /\ ret = OkBulkString(<<>>)) => buf = EMPTY_WIRE
    /\ (call = "encode" /\ ret = OkNullBulkString) => buf = NULL_WIRE
    /\ (call = "BulkString::decode" /\ before = EMPTY_WIRE) => ret = OkBulkString(<<>>)
    /\ (call = "NullBulkString::decode" /\ before = EMPTY_WIRE) => ret.kind # "NullBulkString"
    /\ (call = "BulkString::decode" /\ before = NULL_WIRE) => ret.kind # "BulkString"
    /\ (call = "NullBulkString::decode" /\ before = NULL_WIRE) => ret = OkNullBulkString

\* RespBulkString::new on an empty input has returned the null bulk string
C13_Witness ==
    /\ call = "RespBulkString::new"
    /\ val = <<>>
    /\ ret = OkNullBulkString

----------------------------------------------------------------------------
(* Claims about the frame terminator and the frame length. *)

\* the buffer opens with a well-formed header "$L\r\n"
HasHeader(b) == parse_length(b, PREFIX).kind = "Ok"

\* the header of b declares a length no larger than the buffer itself
DeclaresSmall(b) ==
    /\ HasHeader(b)
    /\ ~UsizeLess(UsizeOfNat(Len(b)), parse_length(b, PREFIX).len)

\* C14: a buffer with a well-formed header "$L\r\n", L payload bytes, and then
\* two bytes that are not CR LF makes decode return the malformed-frame error
\* (neither a value nor NotComplete) and consume nothing.
C14_BadTerminatorRejected ==
    (call = "BulkString::decode" /\ DeclaresSmall(before)) =>
        LET pl == parse_length(before, PREFIX)
            L == NatOfUsize(pl.len)
            remained == SliceFrom(before, pl.end + CRLF_LEN)
        IN (Len(remained) >= L + CRLF_LEN /\ SubSeq(remained, L + 1, L + CRLF_LEN) # CRLF) =>
              /\ ret = Malformed
              /\ buf = before

\* C15: for every buffer that opens with a well-formed header "$L\r\n",
\* expect_length returns the header's bytes (CR LF included) plus L plus 2,
\* whether or not the payload has arrived; that number is what decode removes
\* once the whole frame is there, so decode succeeds exactly when the buffer
\* holds at least expect_length bytes.
C15_ExpectLengthAgrees ==
    (call = "BulkString::expect_length" /\ HasHeader(before)) =>
        LET pl == parse_length(before, PREFIX)
            total == UsizeAdd(UsizeOfNat(pl.end + CRLF_LEN + CRLF_LEN), pl.len)
            dec == BulkString_decode(before, checks)
        IN /\ ~total.overflow
           /\ ret = OkLength(total.val)
           /\ (dec.ret.kind = "BulkString") <=> ~UsizeLess(UsizeOfNat(Len(before)), total.val)
           /\ dec.ret.kind = "BulkString" =>
                 UsizeOfNat(Len(before) - Len(dec.buf)) = total.val

----------------------------------------------------------------------------
(* Claims about the frame of the Backend's operations. *)

\* C17: hset(k, f, v) changes only field f of hash k.  It creates the hash if
\* there is none and makes hget(k, f) return v, overwriting an older value; it
\* leaves every other field of k, every other hash key, and the whole scalar
\* map and set map as they were, also under the same key name.  hget(k, f)
\* returns absence exactly when no hset(k, f, _) has completed before.
C17_HSetFrame ==
    /\ [][(Idle /\ last'.name = "hset") =>
            /\ Backend_hget(hmap', last'.key, last'.field) = Some(last'.value)
            /\ DOMAIN hmap' = DOMAIN hmap \cup {last'.key}
            /\ \A k \in HashKeys, f \in HashFields :
                  <<k, f>> # <<last'.key, last'.field>> =>
                      Backend_hget(hmap', k, f) = Backend_hget(hmap, k, f)
            /\ map' = map
            /\ hset' = hset]_vars
    /\ [](last.name = "hget" =>
            (last.ret = None <=> HSetRecord(last.key, last.field) \notin done))

\* an hset has overwritten one field of a hash that holds another field, while
\* another hash, a scalar and a set exist, the last two under the same key name
C17_Witness ==
    /\ last.name = "hset"
    /\ last.key = KeyName(1)
    /\ Cardinality(DOMAIN hmap[KeyName(1)]) > 1
    /\ hmap[KeyName(1)][last.field] = IntegerFrame(1)
    /\ KeyName(2) \in DOMAIN hmap
    /\ KeyName(1) \in DOMAIN map
    /\ KeyName(1) \in DOMAIN hset

\* C19: the read operations get, hget, hgetall and sismember, on present or
\* absent keys, leave all three maps exactly as they were; a read of an absent
\* key creates no entry, so a later read of it still finds nothing.
C19_ReadsChangeNothing ==
    [][(Idle /\ last'.name \in {"get", "hget", "hgetall", "sismember"}) =>
          /\ map' = map
          /\ hmap' = hmap
          /\ hset' = hset
          /\ last'.name = "get" => last'.ret = Backend_get(map', last'.key)
          /\ last'.name = "hgetall" => last'.ret = Backend_hgetall(hmap', last'.key)
          /\ last'.name = "hget" => last'.ret = Backend_hget(hmap', last'.key, last'.field)
          /\ last'.name = "sismember" =>
                last'.ret = Backend_sismember(hset', last'.key, last'.member)]_vars

\* hgetall has found no hash under a key that holds a scalar and a set
C19_Witness ==
    /\ last.name = "hgetall"
    /\ last.ret = None
    /\ last.key \notin DOMAIN hmap
    /\ last.key \in DOMAIN map
    /\ last.key \in DOMAIN hset

----------------------------------------------------------------------------
(* Claims about concurrent calls on one key. *)

\* the workers whose sadd has produced its result
Answered == {w \in Workers : w \notin todo /\ pc[w] \in {"drop", "idle"}}

\* C16: when several workers concurrently call sadd(k, m) with the same key
\* and the same member, and m is not yet in the set (the key may not exist
\* yet), exactly one call returns true, all the others return false, and the
\* set ends up holding m.
C16_ExactlyOneNew ==
    LET winners == {w \in Answered : res[w]}
    IN /\ Cardinality(winners) <= 1
       /\ Answered # {} => Cardinality(winners) = 1
       /\ AllReturned =>
             /\ Cardinality(winners) = 1
             /\ \A w \in Workers \ winners : res[w] = FALSE
             /\ RacePair[1] \in DOMAIN hset
             /\ RacePair[2] \in hset[RacePair[1]]
             /\ \A r \in done : r.key = RacePair[1] /\ r.member = RacePair[2]

\* every worker's call has returned: one was told true, another false
C16_Witness ==
    /\ AllReturned
    /\ \E w \in Workers : res[w]
    /\ \E w \in Workers : ~res[w]
    /\ Cardinality(done) = 2

----------------------------------------------------------------------------
(* Claims about the concurrent Backend. *)

\* the labels at which a worker's hset holds the entry of its key
InHSet == {"hset:or_default", "hset:insert", "hset:drop"}

\* C11: hgetall(key) returns absence when the key has no hash, and otherwise a
\* copy equal to the hash's contents at one single point in time between call
\* and return.  Under any interleaving with hset calls on the same key the
\* copy holds each hset fully or not at all, and hset calls that complete
\* after hgetall has made its copy do not change it.
C11_HGetAllSnapshot ==
    /\ [](\A w \in Workers :
            pc[w] = "hgetall:drop" =>
                /\ arg[w][1] \in DOMAIN hmap
                /\ view[w] = Some(hmap[arg[w][1]])
                /\ \A v \in Workers : pc[v] \in InHSet => arg[v][1] # arg[w][1])
    /\ [][\A w \in Workers :
            /\ (pc[w] = "hgetall" /\ pc'[w] = "idle") =>
                  view'[w] = None /\ arg[w][1] \notin DOMAIN hmap
            /\ (pc[w] \in {"hgetall:drop", "idle"} /\ pc'[w] = "idle") =>
                  view'[w] = view[w]]_vars

\* hgetall has copied a hash while an hset on the same key waits for the entry
C11_Witness ==
    \E w, v \in Workers :
        /\ pc[w] = "hgetall:drop"
        /\ view[w] = Some(hmap[arg[w][1]])
        /\ pc[v] = "hset"
        /\ arg[v][1] = arg[w][1]

\* C18: the Backend's operations are total and free of deadlock.  Under any
\* interleaving of get, set, hget, hset, hgetall, sadd and sismember by the
\* workers, on any keys, with fair scheduling every call eventually returns:
\* no worker waits forever on a lock held by another worker or by itself.
C18_EveryCallReturns ==
    \A w \in Workers : (pc[w] # "idle") ~> (pc[w] = "idle")

\* an hset on one key waits for the shard that an hgetall on another key
\* holds while it copies the inner map
C18_Witness ==
    \E w, v \in Workers :
        /\ pc[w] \in CloneLabels
        /\ pc[v] = "hset"
        /\ arg[v][1] # arg[w][1]
        /\ shardOf[arg[v][1]] = shardOf[arg[w][1]]

\* C20: no reader ever observes a key that exists but is empty.  hset and sadd
\* keep the key's entry locked from its creation until the first insert, so
\* whenever hget, hgetall or sismember looks at a key of the hash map it has
\* at least one field, a key of the set map has at least one member, and
\* hgetall never returns a present-but-empty hash.
C20_NoEmptyKeyVisible ==
    /\ \A k \in DOMAIN hmap :
          hmap[k] = EmptyMap =>
              hwlock[shardOf[k]] # NoWorker /\ hrlock[shardOf[k]] = {}
    /\ \A k \in DOMAIN hset :
          hset[k] = {} =>
              wlock[shardOf[k]] # NoWorker /\ rlock[shardOf[k]] = {}
    /\ \A w \in Workers :
          /\ pc[w] \in {"hget:get", "hget:clone", "hgetall:drop"} \cup CloneLabels =>
                arg[w][1] \in DOMAIN hmap /\ hmap[arg[w][1]] # EmptyMap
          /\ pc[w] = "sismember:contains" =>
                arg[w][1] \in DOMAIN hset /\ hset[arg[w][1]] # {}
          /\ pc[w] = "hgetall:drop" => view[w] # Some(EmptyMap)

\* an hset has created the key's hash and not yet inserted into it, while an
\* hgetall on that key is waiting
C20_Witness ==
    \E w, v \in Workers :
        /\ pc[w] = "hset:insert"
        /\ hmap[arg[w][1]] = EmptyMap
        /\ pc[v] = "hgetall"
        /\ arg[v][1] = arg[w][1]

====
